---- MODULE Spec2Model ----
(***************************************************************************)
(* A model of sign.py: the colour lookup get_color, the Element variants   *)
(* (Arrow, BilingualText, ExitSign, NumberLine) and the layout done by     *)
(* Sign.add_element / Sign.save.                                           *)
(*                                                                         *)
(* Python strings are sequences of one-character strings, so that str(),   *)
(* str.isdigit and len() are computed and not assumed.  A Python value     *)
(* that may be an int or a str is a record [isInt, n, s].  Glyph widths    *)
(* come from the font files, which are outside the repository: they are    *)
(* inputs of the constructors.                                             *)
(***************************************************************************)
EXTENDS Integers, Sequences, FiniteSets, TLC

VARIABLES
    width,      \* Sign.width
    height,     \* Sign.height
    padding,    \* Sign.padding
    elements,   \* Sign.elements: sequence of [align, e]
    table,      \* the rows of colors.csv, in file order
    op,         \* the operation that ran last
    err,        \* the error it raised ("none" when it returned)
    calls,      \* element.draw calls issued by the last Sign.save, in order
    saved,      \* the last Sign.save reached self.image.save(filename)
    pos_mid,    \* <<pos_x>> computed at sign.py:442 by the last save, or <<>>
    arrow,      \* the last stand-alone Arrow.draw: its arguments and draw calls
    color       \* the last stand-alone get_color: its argument and outcome

vars == <<width, height, padding, elements, table, op, err, calls, saved,
          pos_mid, arrow, color>>

-----------------------------------------------------------------------------
(* Bounds of the model *)

MaxElements == 3

MaxRows == 2

MaxArrowSize == 6

MaxOrigin == 1

-----------------------------------------------------------------------------
(* Python values and strings *)

\* None is the empty option, a value v given is <<v>>
None == <<>>

Some(v) == <<v>>

PyInt(i) == [isInt |-> TRUE, n |-> i, s |-> <<>>]

PyStr(str) == [isInt |-> FALSE, n |-> 0, s |-> str]

Digits == {"0", "1", "2", "3", "4", "5", "6", "7", "8", "9"}

DigitChar(d) == <<"0", "1", "2", "3", "4", "5", "6", "7", "8", "9">>[d + 1]

RECURSIVE NatToStr(_)
NatToStr(i) ==
    IF i < 10 THEN <<DigitChar(i)>>
    ELSE Append(NatToStr(i \div 10), DigitChar(i % 10))

\* str(v): the decimal digits of an int (with its sign), a str unchanged
Str(v) ==
    IF v.isInt
    THEN IF v.n < 0 THEN <<"-">> \o NatToStr(-v.n) ELSE NatToStr(v.n)
    ELSE v.s

\* str.isdigit: non-empty and every character a digit
IsDigit(str) == Len(str) > 0 /\ \A i \in 1..Len(str) : str[i] \in Digits

-----------------------------------------------------------------------------
(* get_color *)

RECURSIVE FirstMatch(_, _, _)
FirstMatch(rows, key, k) ==
    IF k > Len(rows) THEN 0
    ELSE IF rows[k].Line = key THEN k
    ELSE FirstMatch(rows, key, k + 1)

RECURSIVE LastMatch(_, _, _)
LastMatch(rows, key, k) ==
    IF k > Len(rows) THEN 0
    ELSE LET later == LastMatch(rows, key, k + 1)
         IN  IF later # 0 THEN later
             ELSE IF rows[k].Line = key THEN k ELSE 0

get_color_last(rows, line) ==
    LET k == LastMatch(rows, Str(line), 1)
    IN  IF k = 0
        THEN [err |-> "notfound", pair |-> <<>>]
        ELSE [err |-> "none",
              pair |-> <<rows[k].BackgroundColor, rows[k].TextColor>>]

get_color(rows, line) ==
    LET k == FirstMatch(rows, Str(line), 1)
    IN  IF k = 0
        THEN [err |-> "notfound", pair |-> <<>>]
        ELSE [err |-> "none",
              pair |-> <<rows[k].BackgroundColor, rows[k].TextColor>>]

-----------------------------------------------------------------------------
(* Elements.  One record shape for the four variants; a field a variant    *)
(* does not have holds a neutral value.                                    *)

\* an argument the caller left out, so that the parameter's default applies
Omitted == "<omitted>"

Directions == {"up", "down", "left", "right"}

Element(kind, size) ==
    [kind |-> kind, size |-> size, thickness |-> 0, direction |-> "",
     text_width |-> 0, text_en_width |-> 0, align |-> "", code_width |-> 0,
     lines |-> <<>>]

\* Arrow.__init__
ArrowInit(size, thickness, direction) ==
    [Element("Arrow", size) EXCEPT
        !.thickness = IF thickness = None THEN size \div 4 ELSE thickness[1],
        !.direction = IF direction = Omitted THEN "left" ELSE direction]

\* BilingualText.__init__; the two glyph widths are the fonts' answers
BilingualTextInit(size, text_width, text_en_width, align) ==
    [Element("BilingualText", size) EXCEPT
        !.text_width = text_width,
        !.text_en_width = text_en_width,
        !.align = IF align = Omitted THEN "left" ELSE align]

\* ExitSign.__init__: a right-aligned BilingualText and the code's width
ExitSignInit(size, code_width, text_width, text_en_width) ==
    [Element("ExitSign", size) EXCEPT
        !.text_width = text_width,
        !.text_en_width = text_en_width,
        !.align = "right",
        !.code_width = code_width]

\* NumberLine.__init__, lines 336-339: self.lines
NumberLineLines(line) == [i \in 1..Len(line) |-> Str(line[i])]

\* NumberLine.__init__, line 341: all(map(str.isdigit, self.lines))
NumberLineAccepts(lines) == \A i \in 1..Len(lines) : IsDigit(lines[i])

\* NumberLine.__init__ once the check has passed
NumberLineInit(size, line, text_width, text_en_width) ==
    [Element("NumberLine", size) EXCEPT
        !.lines = NumberLineLines(line),
        !.text_width = text_width,
        !.text_en_width = text_en_width,
        !.align = "left"]

\* BilingualText.get_size().width, also of the text inside the composites
TextWidth(e) == IF e.text_width > e.text_en_width
                THEN e.text_width ELSE e.text_en_width

\* Element.width: get_size().width of each variant
Width(e) ==
    CASE e.kind = "Arrow" -> e.size
      [] e.kind = "BilingualText" -> TextWidth(e)
      [] e.kind = "ExitSign" -> e.code_width + TextWidth(e)
      [] e.kind = "NumberLine" -> e.size * Len(e.lines) + TextWidth(e)

\* Element.height: get_size().height
Height(e) == e.size

-----------------------------------------------------------------------------
(* Arrow.draw *)

\* thickness // 2.828 (a float floor division; exact for the small values here)
Half2828(thickness) == (thickness * 1000) \div 2828

ArrowLeft(e, x, y) ==
    LET center_y == y + e.size \div 2
    IN  [rect_1 |-> << <<x, center_y>>,
                       <<x + e.thickness, center_y>>,
                       <<x + e.thickness + e.size \div 3, center_y - e.size \div 3>>,
                       <<x + e.size \div 3, center_y - e.size \div 3>> >>,
         rect_2 |-> << <<x, center_y>>,
                       <<x + e.thickness, center_y>>,
                       <<x + e.thickness + e.size \div 3, center_y + e.size \div 3>>,
                       <<x + e.size \div 3, center_y + e.size \div 3>> >>,
         rectangle_coords |->
                    << <<x + e.thickness \div 2, center_y - Half2828(e.thickness)>>,
                       <<x + e.size, center_y + Half2828(e.thickness)>> >>]

ArrowRight(e, x, y) ==
    LET center_y == y + e.size \div 2
    IN  [rect_1 |-> << <<x + e.size, center_y>>,
                       <<x + e.size - e.thickness, center_y>>,
                       <<x + e.size - e.thickness - e.size \div 3,
                         center_y - e.size \div 3>>,
                       <<x + e.size - e.size \div 3, center_y - e.size \div 3>> >>,
         rect_2 |-> << <<x + e.size, center_y>>,
                       <<x + e.size - e.thickness, center_y>>,
                       <<x + e.size - e.thickness - e.size \div 3,
                         center_y + e.size \div 3>>,
                       <<x + e.size - e.size \div 3, center_y + e.size \div 3>> >>,
         rectangle_coords |->
                    << <<x, center_y - Half2828(e.thickness)>>,
                       <<x + e.size - e.thickness \div 2,
                         center_y + Half2828(e.thickness)>> >>]

ArrowUp(e, x, y) ==
    LET center_x == x + e.size \div 2
    IN  [rect_1 |-> << <<center_x, y>>,
                       <<center_x, y + e.thickness>>,
                       <<center_x - e.size \div 3, y + e.thickness + e.size \div 3>>,
                       <<center_x - e.size \div 3, y + e.size \div 3>> >>,
         rect_2 |-> << <<center_x, y>>,
                       <<center_x, y + e.thickness>>,
                       <<center_x + e.size \div 3, y + e.thickness + e.size \div 3>>,
                       <<center_x + e.size \div 3, y + e.size \div 3>> >>,
         rectangle_coords |->
                    << <<center_x - Half2828(e.thickness), y + e.thickness \div 2>>,
                       <<center_x + Half2828(e.thickness), y + e.size>> >>]

ArrowDown(e, x, y) ==
    LET center_x == x + e.size \div 2
    IN  [rect_1 |-> << <<center_x, y + e.size>>,
                       <<center_x, y + e.size - e.thickness>>,
                       <<center_x - e.size \div 3,
                         y + e.size - e.thickness - e.size \div 3>>,
                       <<center_x - e.size \div 3, y + e.size - e.size \div 3>> >>,
         rect_2 |-> << <<center_x, y + e.size>>,
                       <<center_x, y + e.size - e.thickness>>,
                       <<center_x + e.size \div 3,
                         y + e.size - e.thickness - e.size \div 3>>,
                       <<center_x + e.size \div 3, y + e.size - e.size \div 3>> >>,
         rectangle_coords |->
                    << <<center_x - Half2828(e.thickness), y>>,
                       <<center_x + Half2828(e.thickness),
                         y + e.size - e.thickness \div 2>> >>]

\* the three coordinate lists as initialised at lines 123-125
ArrowNothing == [rect_1 |-> <<>>, rect_2 |-> <<>>, rectangle_coords |-> <<>>]

ArrowDraw_else_left(e, x, y) ==
    CASE e.direction = "right" -> ArrowRight(e, x, y)
      [] e.direction = "up" -> ArrowUp(e, x, y)
      [] e.direction = "down" -> ArrowDown(e, x, y)
      [] OTHER -> ArrowLeft(e, x, y)

\* Arrow.draw: the arguments of draw.polygon, draw.polygon, draw.rectangle
ArrowDraw(e, x, y) ==
    CASE e.direction = "left" -> ArrowLeft(e, x, y)
      [] e.direction = "right" -> ArrowRight(e, x, y)
      [] e.direction = "up" -> ArrowUp(e, x, y)
      [] e.direction = "down" -> ArrowDown(e, x, y)
      [] OTHER -> ArrowNothing

-----------------------------------------------------------------------------
(* What a draw call raises *)

\* NumberLine.draw, one identifier: get_color first (line 360), then the
\* length test (lines 382-387)
BadgeRaises(rows, line) ==
    IF get_color(rows, PyStr(line)).err # "none" THEN "notfound"
    ELSE IF Len(line) = 1 \/ Len(line) = 2 THEN "none"
    ELSE "validation"

\* NumberLine.draw: the loop of line 359 stops at the first identifier that raises
RECURSIVE NumberLineRaises(_, _, _)
NumberLineRaises(rows, lines, k) ==
    IF k > Len(lines) THEN "none"
    ELSE LET r == BadgeRaises(rows, lines[k])
         IN  IF r # "none" THEN r ELSE NumberLineRaises(rows, lines, k + 1)

\* element.draw as Sign.save calls it.  Arrow, BilingualText and ExitSign only
\* hand coordinates to the imaging library.
DrawRaises(rows, e) ==
    IF e.kind = "NumberLine" THEN NumberLineRaises(rows, e.lines, 1) ELSE "none"

-----------------------------------------------------------------------------
(* Sign.save *)

\* [e for align, e in self.elements if align == a], as indices into elements
RECURSIVE Group(_, _, _)
Group(els, a, k) ==
    IF k > Len(els) THEN <<>>
    ELSE IF els[k].align = a THEN <<k>> \o Group(els, a, k + 1)
    ELSE Group(els, a, k + 1)

RECURSIVE SumWidth(_, _, _)
SumWidth(els, idxs, k) ==
    IF k > Len(idxs) THEN 0
    ELSE Width(els[idxs[k]].e) + SumWidth(els, idxs, k + 1)

Reverse(seq) == [i \in 1..Len(seq) |-> seq[Len(seq) + 1 - i]]

LeftAdvance_no_padding(pos_x, e, p) == pos_x + Width(e)

\* line 439
LeftAdvance(pos_x, e, p) == pos_x + Width(e) + p

MiddleStart_count(w, els, middle, p) ==
    (w - SumWidth(els, middle, 1) - p * Len(middle)) \div 2

\* lines 442-446
MiddleStart(w, els, middle, p) ==
    (w - SumWidth(els, middle, 1) - p * (Len(middle) - 1)) \div 2

\* line 449
MiddleAdvance(pos_x, e, p) == pos_x + Width(e) + p

RightOrder_forward(right) == right

\* line 453: right_elements[::-1]
RightOrder(right) == Reverse(right)

\* line 454
RightPlace(pos_x, e) == pos_x - Width(e)

\* line 456
RightAdvance(pos_x, p) == pos_x - p

\* The loops of lines 437-439 and 447-449: draw, then advance.  A draw that
\* raises ends the loop and the save.
RECURSIVE LeftLoop(_, _, _, _, _, _, _)
LeftLoop(rows, els, idxs, k, pos_x, pos_y, p) ==
    IF k > Len(idxs) THEN [calls |-> <<>>, err |-> "none"]
    ELSE LET e == els[idxs[k]].e
             c == [idx |-> idxs[k], x |-> pos_x, y |-> pos_y]
             r == DrawRaises(rows, e)
             rest == LeftLoop(rows, els, idxs, k + 1,
                              LeftAdvance(pos_x, e, p), pos_y, p)
         IN  IF r # "none" THEN [calls |-> <<c>>, err |-> r]
             ELSE [calls |-> <<c>> \o rest.calls, err |-> rest.err]

RECURSIVE MiddleLoop(_, _, _, _, _, _, _)
MiddleLoop(rows, els, idxs, k, pos_x, pos_y, p) ==
    IF k > Len(idxs) THEN [calls |-> <<>>, err |-> "none"]
    ELSE LET e == els[idxs[k]].e
             c == [idx |-> idxs[k], x |-> pos_x, y |-> pos_y]
             r == DrawRaises(rows, e)
             rest == MiddleLoop(rows, els, idxs, k + 1,
                                MiddleAdvance(pos_x, e, p), pos_y, p)
         IN  IF r # "none" THEN [calls |-> <<c>>, err |-> r]
             ELSE [calls |-> <<c>> \o rest.calls, err |-> rest.err]

\* The loop of lines 453-456: step left by the width, draw, step left by padding
RECURSIVE RightLoop(_, _, _, _, _, _, _)
RightLoop(rows, els, idxs, k, pos_x, pos_y, p) ==
    IF k > Len(idxs) THEN [calls |-> <<>>, err |-> "none"]
    ELSE LET e == els[idxs[k]].e
             at == RightPlace(pos_x, e)
             c == [idx |-> idxs[k], x |-> at, y |-> pos_y]
             r == DrawRaises(rows, e)
             rest == RightLoop(rows, els, idxs, k + 1,
                               RightAdvance(at, p), pos_y, p)
         IN  IF r # "none" THEN [calls |-> <<c>>, err |-> r]
             ELSE [calls |-> <<c>> \o rest.calls, err |-> rest.err]

\* a save that divides by the size of the middle group
SaveRun_divides_by_count(rows, w, els, p) ==
    LET left == Group(els, "left", 1)
        middle == Group(els, "middle", 1)
        right == Group(els, "right", 1)
        L == LeftLoop(rows, els, left, 1, p, p, p)
        start == MiddleStart(w, els, middle, p)
        M == MiddleLoop(rows, els, middle, 1, start, p, p)
        R == RightLoop(rows, els, RightOrder(right), 1, w - p, p, p)
    IN  IF L.err # "none"
        THEN [calls |-> L.calls, err |-> L.err, mid |-> <<>>]
        ELSE IF middle = <<>>
        THEN [calls |-> L.calls, err |-> "zerodivision", mid |-> <<>>]
        ELSE IF M.err # "none"
        THEN [calls |-> L.calls \o M.calls, err |-> M.err, mid |-> <<start>>]
        ELSE [calls |-> L.calls \o M.calls \o R.calls, err |-> R.err,
              mid |-> <<start>>]

\* Sign.save up to the file write: the draw calls issued, the error raised,
\* and the middle group's starting pos_x if line 442 was reached
SaveRun(rows, w, els, p) ==
    LET left == Group(els, "left", 1)
        middle == Group(els, "middle", 1)
        right == Group(els, "right", 1)
        L == LeftLoop(rows, els, left, 1, p, p, p)
        start == MiddleStart(w, els, middle, p)
        M == MiddleLoop(rows, els, middle, 1, start, p, p)
        R == RightLoop(rows, els, RightOrder(right), 1, w - p, p, p)
    IN  IF L.err # "none"
        THEN [calls |-> L.calls, err |-> L.err, mid |-> <<>>]
        ELSE IF M.err # "none"
        THEN [calls |-> L.calls \o M.calls, err |-> M.err, mid |-> <<start>>]
        ELSE [calls |-> L.calls \o M.calls \o R.calls, err |-> R.err,
              mid |-> <<start>>]

-----------------------------------------------------------------------------
(* Inputs *)

Row(line, bg, fg) == [Line |-> line, BackgroundColor |-> bg, TextColor |-> fg]

\* the colour table the signs are drawn with: lines 3 and 123 have a row
SignTable == <<Row(<<"3">>, "#FFD100", "black"),
               Row(<<"1", "2", "3">>, "#E4002B", "white")>>

\* Sign(width, height, padding=...) as constructed by the caller
SignArgs == {<<16, 24, None>>, <<5, 36, Some(1)>>}

\* the align argument of add_element: left out, the two other documented
\* values, and the "center" that example.py passes
AlignArgs == {Omitted, "middle", "right", "center"}

\* NumberLine(3, line) and the align it is added with: identifiers given as
\* int and as str; 3 and 123 have a colour row, 7 and 1234 have none; "3a"
\* and -3 are no digit strings
NumberLineArgs == {<<<<PyInt(3)>>, Omitted>>,
                   <<<<PyInt(3)>>, "middle">>,
                   <<<<PyStr(<<"3">>)>>, "right">>,
                   <<<<PyInt(3)>>, "center">>,
                   <<<<PyStr(<<"1", "2", "3">>)>>, Omitted>>,
                   <<<<PyInt(123)>>, "center">>,
                   <<<<PyInt(3), PyInt(7)>>, "middle">>,
                   <<<<PyInt(1234)>>, "right">>,
                   <<<<PyStr(<<"3", "a">>)>>, Omitted>>,
                   <<<<PyInt(3), PyInt(-3)>>, "center">>}

IsBadLine(line) == ~IsDigit(line) \/ Len(line) > 2

HasBadLine(lines) == \E i \in 1..Len(lines) : IsBadLine(lines[i])

-----------------------------------------------------------------------------
(* The Sign: construction, add_element, save *)

\* Sign.__init__, line 424
SignPadding(h, p) == IF p = None THEN h \div 12 ELSE p[1]

Idle ==
    /\ arrow = [size |-> 0, thickness |-> None, direction |-> Omitted,
                e |-> Element("Arrow", 0), x |-> 0, y |-> 0, out |-> ArrowNothing]
    /\ color = [line |-> PyInt(0), out |-> [err |-> "none", pair |-> <<>>]]

Init ==
    /\ \E a \in SignArgs :
          /\ width = a[1]
          /\ height = a[2]
          /\ padding = SignPadding(a[2], a[3])
    /\ elements = <<>>
    /\ table = SignTable
    /\ op = "init"
    /\ err = "none"
    /\ calls = <<>>
    /\ saved = FALSE
    /\ pos_mid = <<>>
    /\ Idle

\* Sign.add_element(element, align)
add_element(e, align) ==
    /\ Len(elements) < MaxElements
    /\ elements' = Append(elements,
                          [align |-> IF align = Omitted THEN "left" ELSE align,
                           e |-> e])
    /\ op' = "add"
    /\ err' = "none"
    /\ calls' = <<>>
    /\ saved' = FALSE
    /\ pos_mid' = <<>>
    /\ UNCHANGED <<width, height, padding, table, arrow, color>>

AddArrow ==
    \E align \in AlignArgs : add_element(ArrowInit(3, None, "right"), align)

AddBilingualText ==
    \E align \in AlignArgs \ {"center"} : add_element(BilingualTextInit(6, 4, 5, Omitted), align)

AddExitSign ==
    \E align \in {"middle", "center"} : add_element(ExitSignInit(6, 2, 4, 3), align)

\* sign.add_element(NumberLine(3, line), align): when the constructor raises,
\* add_element is not reached
AddNumberLine ==
    \E a \in NumberLineArgs :
        LET line == a[1]
            align == a[2]
        IN
        IF NumberLineAccepts(NumberLineLines(line))
        THEN add_element(NumberLineInit(3, line, 1, 1), align)
        ELSE /\ Len(elements) < MaxElements
             /\ op' = "new"
             /\ err' = "validation"
             /\ calls' = <<>>
             /\ saved' = FALSE
             /\ pos_mid' = <<>>
             /\ UNCHANGED <<width, height, padding, elements, table, arrow, color>>

\* Sign.save(filename)
Save ==
    LET run == SaveRun(table, width, elements, padding)
    IN  /\ op' = "save"
        /\ err' = run.err
        /\ calls' = run.calls
        /\ saved' = (run.err = "none")
        /\ pos_mid' = run.mid
        /\ UNCHANGED <<width, height, padding, elements, table, arrow, color>>

Next == AddArrow \/ AddBilingualText \/ AddExitSign \/ AddNumberLine \/ Save

Spec == Init /\ [][Next]_vars

-----------------------------------------------------------------------------
(* Arrow(size, thickness=..., direction=...).draw(draw, x, y) on its own *)

SignIdle ==
    /\ width = 0
    /\ height = 0
    /\ padding = 0
    /\ elements = <<>>
    /\ op = "init"
    /\ err = "none"
    /\ calls = <<>>
    /\ saved = FALSE
    /\ pos_mid = <<>>

ArrowInitial ==
    /\ SignIdle
    /\ table = <<>>
    /\ Idle

\* the direction argument: left out, the four documented values, and another
DirectionArgs == Directions \cup {Omitted, "diagonal"}

ThicknessArgs(size) == {None} \cup {Some(t) : t \in 0..size}

DrawArrow ==
    \E size \in 1..MaxArrowSize, x \in 0..MaxOrigin, y \in 0..MaxOrigin,
       direction \in DirectionArgs :
      \E thickness \in ThicknessArgs(size) :
        LET e == ArrowInit(size, thickness, direction)
        IN  /\ arrow' = [size |-> size, thickness |-> thickness,
                         direction |-> direction, e |-> e, x |-> x, y |-> y,
                         out |-> ArrowDraw(e, x, y)]
            /\ op' = "draw"
            /\ UNCHANGED <<width, height, padding, elements, table, err, calls,
                           saved, pos_mid, color>>

ArrowNext == DrawArrow

SpecArrow == ArrowInitial /\ [][ArrowNext]_vars

-----------------------------------------------------------------------------
(* get_color(line) on its own, against any small colors.csv *)

TableLines == {<<"3">>, <<"1", "2">>}

TablePairs == {<<"#FFD100", "black">>, <<"#E4002B", "white">>}

TableRows == {Row(l, c[1], c[2]) : l \in TableLines, c \in TablePairs}

Tables == UNION {[1..n -> TableRows] : n \in 0..MaxRows}

\* the identifier asked for: as an int, as a str, present and absent
ColorArgs == {PyInt(3), PyStr(<<"3">>), PyInt(12), PyStr(<<"1", "2">>),
              PyInt(4), PyStr(<<"0", "3">>), PyInt(-3)}

ColorInitial ==
    /\ SignIdle
    /\ table \in Tables
    /\ Idle

GetColor ==
    \E line \in ColorArgs :
        /\ color' = [line |-> line, out |-> get_color(table, line)]
        /\ op' = "get_color"
        /\ UNCHANGED <<width, height, padding, elements, table, err, calls,
                       saved, pos_mid, arrow>>

ColorNext == GetColor

SpecColor == ColorInitial /\ [][ColorNext]_vars

-----------------------------------------------------------------------------
(* Properties of the layout *)

AlignOf(k) == elements[k].align

WidthOf(k) == Width(elements[k].e)

RECURSIVE SumWidths(_)
SumWidths(S) ==
    IF S = {} THEN 0
    ELSE LET j == CHOOSE j \in S : TRUE
         IN  WidthOf(j) + SumWidths(S \ {j})

Aligned(a) == {k \in 1..Len(elements) : AlignOf(k) = a}

Drawn(k) == {i \in 1..Len(calls) : calls[i].idx = k}

\* a save that reached the file write has drawn every element of the group
GroupDrawn(a) ==
    saved => \A k \in Aligned(a) : Drawn(k) # {}

\* C1: a save draws the left-aligned element Ek at y = padding and at
\* x = padding + the sum over the left-aligned elements added before it of
\* (width + padding), whatever was added with another alignment in between;
\* the left draws happen in insertion order, and a save that reaches the
\* file write has drawn them all.
C1_LeftGroup ==
    op = "save" =>
      /\ \A i \in 1..Len(calls) :
           LET k == calls[i].idx
               before == {j \in Aligned("left") : j < k}
           IN  AlignOf(k) = "left" =>
                 /\ calls[i].x = padding + SumWidths(before) + padding * Cardinality(before)
                 /\ calls[i].y = padding
      /\ \A i, j \in 1..Len(calls) :
           (i < j /\ AlignOf(calls[i].idx) = "left" /\ AlignOf(calls[j].idx) = "left")
             => calls[i].idx < calls[j].idx
      /\ GroupDrawn("left")

\* two left elements with another group's element added between them, saved
C1_Witness ==
    /\ op = "save" /\ saved
    /\ Len(elements) = 3
    /\ AlignOf(1) = "left" /\ AlignOf(2) \in {"middle", "right"} /\ AlignOf(3) = "left"
    /\ \E i, j \in 1..Len(calls) :
         /\ calls[i].idx = 1 /\ calls[i].x = padding
         /\ calls[j].idx = 3 /\ calls[j].x = padding + WidthOf(1) + padding

\* C2: a save draws the right-aligned element Ek at y = padding and at
\* x = width - padding - (the widths of Ek and of the right-aligned elements
\* added after it) - padding * (the number of those added after it), so the
\* last one added ends at width - padding; the right draws happen in reverse
\* insertion order, and a save that reaches the file write has drawn them all.
C2_RightGroup ==
    op = "save" =>
      /\ \A i \in 1..Len(calls) :
           LET k == calls[i].idx
               after == {j \in Aligned("right") : j > k}
           IN  AlignOf(k) = "right" =>
                 /\ calls[i].x = width - padding - WidthOf(k) - SumWidths(after)
                                   - padding * Cardinality(after)
                 /\ calls[i].y = padding
      /\ \A i, j \in 1..Len(calls) :
           (i < j /\ AlignOf(calls[i].idx) = "right" /\ AlignOf(calls[j].idx) = "right")
             => calls[i].idx > calls[j].idx
      /\ GroupDrawn("right")

\* two right elements of different widths, saved
C2_Witness ==
    /\ op = "save" /\ saved
    /\ \E k1, k2 \in Aligned("right") :
         /\ k1 < k2 /\ WidthOf(k1) # WidthOf(k2)
         /\ Aligned("right") = {k1, k2}
         /\ \E i, j \in 1..Len(calls) :
              /\ calls[j].idx = k2 /\ calls[j].x = width - padding - WidthOf(k2)
              /\ calls[i].idx = k1
              /\ calls[i].x = width - padding - WidthOf(k2) - padding - WidthOf(k1)

\* C3: a save draws the middle group as one centred block: with total = the
\* sum of the middle widths + padding * (count - 1), the middle element Ek is
\* at y = padding and at x = floor((width - total) / 2) + the sum over the
\* middle elements added before it of (width + padding), also when total
\* exceeds the sign's width; a save that reaches the file write has drawn
\* them all.
C3_MiddleGroup ==
    op = "save" =>
      /\ \A i \in 1..Len(calls) :
           LET k == calls[i].idx
               group == Aligned("middle")
               total == SumWidths(group) + padding * (Cardinality(group) - 1)
               before == {j \in group : j < k}
           IN  AlignOf(k) = "middle" =>
                 /\ calls[i].x = (width - total) \div 2
                                   + SumWidths(before) + padding * Cardinality(before)
                 /\ calls[i].y = padding
      /\ GroupDrawn("middle")

\* a middle group of two that is wider than the sign, drawn from a negative x
C3_Witness ==
    /\ op = "save" /\ saved
    /\ Cardinality(Aligned("middle")) = 2
    /\ SumWidths(Aligned("middle")) + padding > width
    /\ \E i \in 1..Len(calls) : AlignOf(calls[i].idx) = "middle" /\ calls[i].x < 0

\* C8 (as claimed): a sign with no middle-aligned element cannot be exported:
\* the save stops at the centring computation.
C8_EmptyMiddleFails ==
    (op = "save" /\ Aligned("middle") = {}) => ~saved

NoDrawRaises == \A k \in 1..Len(elements) :
                    AlignOf(k) \in {"left", "right"} => DrawRaises(table, elements[k].e) = "none"

\* C8 (amended): with an empty middle group the centring computation divides
\* by 2, not by the group size, and gives floor((width + padding) / 2); it
\* raises nothing, no element is drawn from that value, and the save reaches
\* the file write unless one of the left or right elements' draws raises.
C8_EmptyMiddleExports ==
    (op = "save" /\ Aligned("middle") = {}) =>
      /\ err # "zerodivision"
      /\ NoDrawRaises => (saved /\ err = "none")
      /\ pos_mid # <<>> => pos_mid = <<(width + padding) \div 2>>
      /\ (\A k \in Aligned("left") : DrawRaises(table, elements[k].e) = "none")
            => pos_mid # <<>>

\* the first example of example.py in small: two left elements, no middle, saved
C8_Witness ==
    /\ op = "save" /\ saved
    /\ Len(elements) = 2
    /\ Aligned("left") = {1, 2}
    /\ elements[1].e.kind = "NumberLine" /\ elements[2].e.kind = "Arrow"
    /\ pos_mid = <<(width + padding) \div 2>>

\* C10 (as claimed): a save that reaches the file write has drawn every
\* element of the list exactly once, whatever align it was added with.
C10_EveryElementDrawnOnce ==
    (op = "save" /\ saved) =>
        \A k \in 1..Len(elements) : Cardinality(Drawn(k)) = 1

\* C7 (as claimed): a save leaves the sign's fields alone, a completed save
\* draws exactly the elements of the list, and a save right after a save
\* issues the same draw calls.
C7_Reexport ==
    [][op' = "save" =>
         /\ elements' = elements /\ padding' = padding
         /\ width' = width /\ height' = height
         /\ saved' => {calls'[i].idx : i \in 1..Len(calls')} = 1..Len(elements')
         /\ op = "save" => (calls' = calls /\ err' = err /\ saved' = saved)]_vars

\* the part of C7 that the code keeps: the frame of save and the repeated save
SaveKeepsSign ==
    [][op' = "save" =>
         /\ elements' = elements /\ padding' = padding
         /\ width' = width /\ height' = height
         /\ op = "save" => (calls' = calls /\ err' = err /\ saved' = saved)]_vars

\* C4 (as claimed): a NumberLine given an identifier that is not all digits
\* or is longer than two characters never gets through: its constructor
\* raises, or a save of a sign that holds it does not reach the file write.
C4_BadLineRejected ==
    /\ op = "new" => err = "validation"
    /\ \A k \in 1..Len(elements) :
         (elements[k].e.kind = "NumberLine" /\ HasBadLine(elements[k].e.lines))
            => ~(op = "save" /\ saved)

-----------------------------------------------------------------------------
(* Properties of Arrow.draw *)

Points(out) ==
    {out.rect_1[i] : i \in 1..Len(out.rect_1)}
      \cup {out.rect_2[i] : i \in 1..Len(out.rect_2)}
      \cup {out.rectangle_coords[i] : i \in 1..Len(out.rectangle_coords)}

InBox(pt, x, y, size) ==
    /\ x <= pt[1] /\ pt[1] <= x + size
    /\ y <= pt[2] /\ pt[2] <= y + size

\* C5 (as claimed): an Arrow whose direction was left out or is none of
\* up, down, left, right is drawn with the polygons and rectangle of "left".
C5_UnknownDrawnAsLeft ==
    (op = "draw" /\ arrow.direction \notin Directions) =>
        arrow.out = ArrowLeft(arrow.e, arrow.x, arrow.y)

\* C5 (amended): an Arrow whose direction was left out is drawn exactly as
\* one given "left" (tip at the middle of the left edge); an Arrow given a
\* direction that is none of up, down, left, right gets no geometry: the two
\* polygon calls and the rectangle call receive empty coordinate lists.
C5_DefaultLeftUnknownEmpty ==
    op = "draw" =>
      /\ arrow.direction = Omitted =>
           /\ arrow.out = ArrowDraw(ArrowInit(arrow.size, arrow.thickness, "left"),
                                    arrow.x, arrow.y)
           /\ arrow.out.rect_1[1] = <<arrow.x, arrow.y + arrow.size \div 2>>
           /\ arrow.out.rectangle_coords[2][1] = arrow.x + arrow.size
      /\ arrow.direction \notin (Directions \cup {Omitted}) =>
           /\ arrow.out.rect_1 = <<>>
           /\ arrow.out.rect_2 = <<>>
           /\ arrow.out.rectangle_coords = <<>>

\* an Arrow given direction "diagonal" has been drawn
C5_Witness ==
    /\ op = "draw"
    /\ arrow.direction = "diagonal"
    /\ arrow.size = 4
    /\ Points(arrow.out) = {}

\* C9 (as claimed): for size >= 1, a thickness left out or from 0 to size and
\* each of the four directions, every vertex of the two polygons and both
\* corners of the rectangle lie in [x, x + size] x [y, y + size], the box
\* get_size reports.
C9_ArrowInsideBox ==
    (op = "draw" /\ arrow.e.direction \in Directions) =>
      /\ Width(arrow.e) = arrow.size /\ Height(arrow.e) = arrow.size
      /\ \A pt \in Points(arrow.out) : InBox(pt, arrow.x, arrow.y, arrow.size)

\* the part of C9 the code keeps: with the default thickness the arrow stays
\* inside its box
DefaultArrowInsideBox ==
    (op = "draw" /\ arrow.e.direction \in Directions /\ arrow.thickness = None) =>
      \A pt \in Points(arrow.out) : InBox(pt, arrow.x, arrow.y, arrow.size)

-----------------------------------------------------------------------------
(* Properties of get_color *)

Matching == {k \in 1..Len(table) : table[k].Line = Str(color.line)}

\* C6: get_color returns the (BackgroundColor, TextColor) of the first row
\* whose Line equals str(identifier), raises the not-found error exactly when
\* no row matches and never answers with a pair of its own; identifiers with
\* the same str (3 and "3") get the same answer.
C6_ColorLookup ==
    op = "get_color" =>
      /\ Matching = {} <=> color.out.err = "notfound"
      /\ Matching = {} => color.out.pair = <<>>
      /\ Matching # {} =>
           LET first == CHOOSE k \in Matching : \A j \in Matching : k <= j
           IN  /\ color.out.err = "none"
               /\ color.out.pair = <<table[first].BackgroundColor, table[first].TextColor>>
      /\ \A other \in ColorArgs :
           Str(other) = Str(color.line) => get_color(table, other) = color.out

\* the int 3 looked up in a table with two rows for line 3 of different colours
C6_Witness ==
    /\ op = "get_color"
    /\ color.line = PyInt(3)
    /\ Len(table) = 2
    /\ table[1].Line = <<"3">> /\ table[2].Line = <<"3">>
    /\ table[1].BackgroundColor # table[2].BackgroundColor
    /\ color.out.pair = <<table[1].BackgroundColor, table[1].TextColor>>

====
